---- MODULE Spec2Model ----
(***************************************************************************)
(* Model of the proposal workflow of src/proposer/graph.py: the graph      *)
(* init_agents -> propose -> evaluate -> arbitrate -> (propose | END), the *)
(* ProposalState it threads through the nodes, and the aggregation of the  *)
(* three CriticAgent results into one composite evaluation.                *)
(*                                                                         *)
(* Scores are Python floats in the source.  They are modelled exactly, as  *)
(* integers counting thirtieths of a point (TicksPerPoint ticks = 1.0), so *)
(* that both the critic's division by 10 and the mean over the three       *)
(* dimensions are exact for integer raw scores.                            *)
(***************************************************************************)
EXTENDS Integers, Sequences, FiniteSets, TLC

VARIABLES
    pc,              \* node the graph runs next; "end" = END, "failed" = a node raised
    proposals,       \* ProposalState.proposals
    evaluations,     \* ProposalState.evaluations
    status,          \* ProposalState.status
    iteration,       \* ProposalState.iteration
    max_iterations,  \* ProposalState.max_iterations
    excellent_score, \* ProposalState.excellent_score (ticks)
    config,          \* the "configurable" mapping the run was started with
    configuration,   \* ProposalWorkflow.configuration (NoConfiguration until init_agents)
    critics,         \* ProposalWorkflow.critics: the focus names, in dict insertion order
    steps,           \* history: how often each node body has run in this run, how often
                     \* its collaborators were called and failed, and what they were passed
    agents,          \* the models ProposalWorkflow.proposer / critics / optimizer were built with
    unit,            \* an agent used on its own: the object, its backend calls, its last call
    feedback         \* _wait_user_feedback while interrupted: the resume values received
                     \* and the evaluations at the first interrupt

vars == <<pc, proposals, evaluations, status, iteration, max_iterations,
          excellent_score, config, configuration, critics, steps, agents, unit,
          feedback>>

stateFields == <<proposals, evaluations, status, iteration, max_iterations, excellent_score>>

-----------------------------------------------------------------------------
(* Bounds of the model *)

\* largest max_iterations a run is configured with
MaxIterBound == 3

\* longest constraints list passed to ProposerAgent.generate
MaxConstraints == 2

\* most backend calls made by the agents used on their own
MaxBackendCalls == 4

\* most documents returned by one retrieval
MaxDocuments == 2

\* most objects listed in the bucket
MaxFiles == 3

-----------------------------------------------------------------------------
(* Score arithmetic *)

\* ticks per 1.0 of score
TicksPerPoint == 3 * 10

\* ProposalState defaults (graph.py:32-33); 8.5 points = 255 ticks
DefaultMaxIterations == 3
DefaultExcellentScore == 255

\* excellent_score values a run is configured with: 0.7 and 8.0 points
\* (examples/proposal_example.py uses 8.0)
ExcellentScores == {21, 240}

\* Configuration accepts any int (configuration.py:51-58), also 0 and below
MaxIterationsValues == -1..MaxIterBound

\* the run's configurable: the models are the defaults of Configuration (configuration.py:25-45)
Configurables ==
    [max_iterations : MaxIterationsValues, excellent_score : ExcellentScores,
     proposer_model : {"qwen-max"}, critic_model : {"qwen-plus"}, optimizer_model : {"qwen-max"}]

NoConfiguration ==
    [max_iterations |-> -1, excellent_score |-> -1,
     proposer_model |-> "none", critic_model |-> "none", optimizer_model |-> "none"]

\* Configuration.from_runnable_config: the configurable entries that name a
\* field of Configuration are passed to the constructor unchanged
from_runnable_config(c) ==
    [max_iterations |-> c.max_iterations, excellent_score |-> c.excellent_score,
     proposer_model |-> c.proposer_model, critic_model |-> c.critic_model,
     optimizer_model |-> c.optimizer_model]

\* ProposalWorkflow.__init__: self.proposer = None, self.critics = {}, self.optimizer = None
NoAgents == [proposer |-> "none", critic |-> "none", optimizer |-> "none"]

\* _init_agents (graph.py:79-89): the agents are built with the models of the configuration
AgentsOf(c) ==
    [proposer |-> c.proposer_model, critic |-> c.critic_model, optimizer |-> c.optimizer_model]

\* the configurable of another run started on the same compiled graph
OtherConfigurable ==
    [max_iterations |-> 1, excellent_score |-> 21,
     proposer_model |-> "qwen-turbo", critic_model |-> "qwen-turbo",
     optimizer_model |-> "qwen-turbo"]


\* self.critics as built by _init_agents, in insertion order
CriticFocuses == <<"logic", "completeness", "feasibility">>

\* the keys of CRITIC_PROMPTS
CRITIC_PROMPTS == {"default", "logic", "completeness", "innovation", "feasibility"}

-----------------------------------------------------------------------------
(* The backends *)

\* texts a generation / optimisation call returns (content.strip() may be empty)
BackendTexts == {"", "text"}

\* parsed critic responses: overall_score is the raw 1-10 figure, evaluations
\* maps each goal to its suggestions (kept as the list of the mapping's items)
CriticResponses ==
    { [overall_score |-> 3, overall_feedback |-> "weak",
       evaluations |-> <<[goal |-> "g1", suggestions |-> "s1"],
                         [goal |-> "g2", suggestions |-> "s2"]>>],
      [overall_score |-> 9, overall_feedback |-> "strong",
       evaluations |-> <<[goal |-> "g1", suggestions |-> "s3"]>>] }

\* what one backend call does: it returns or it raises
Outcomes == {"ok", "raise"}

-----------------------------------------------------------------------------
(* Pure helpers *)

RECURSIVE SumScores(_)
\* sum(result["score"] for result in evaluation_results.values())
SumScores(results) ==
    IF results = <<>> THEN 0
    ELSE Head(results).score + SumScores(Tail(results))

\* critic/core.py:152: evaluation.get('overall_score', 0) / 10.0
NormalizedScore(overall_score) == (overall_score * TicksPerPoint) \div 10

\* critic/core.py:154-157: one "goal: suggestions" string per evaluated goal
GoalSuggestions(response) ==
    [i \in 1..Len(response.evaluations) |->
        [goal |-> response.evaluations[i].goal,
         text |-> response.evaluations[i].suggestions]]

\* CriticAgent.evaluate_proposal on a parsed response (critic/core.py:151-158)
CriticResult(response) ==
    [score       |-> NormalizedScore(response.overall_score),
     comments    |-> response.overall_feedback,
     suggestions |-> GoalSuggestions(response)]

\* graph.py:218-225: the critics are awaited one after the other, in the
\* order of self.critics; responses[i] is what the i-th critic's backend returned
EvaluationResults(focuses, responses) ==
    [i \in 1..Len(focuses) |->
        [focus |-> focuses[i]] @@ CriticResult(responses[i])]

\* the sum divided by the four dimensions the example's docstring lists
OverallScoreOfFour(results) == SumScores(results) \div 4

\* graph.py:228: the unweighted mean of the dimension scores
OverallScore(results) == SumScores(results) \div Len(results)

\* the lines in the reverse of the order of evaluation_results
CombinedCommentsReversed(results) ==
    <<[label |-> "summary", text |-> ""]>> \o
    [i \in 1..Len(results) |->
        [label |-> results[Len(results) + 1 - i].focus,
         text  |-> results[Len(results) + 1 - i].comments]]

\* graph.py:234-237: the header line, then one "- focus: comments" line per
\* dimension in the order of evaluation_results
CombinedComments(results) ==
    <<[label |-> "summary", text |-> ""]>> \o
    [i \in 1..Len(results) |-> [label |-> results[i].focus, text |-> results[i].comments]]

\* the list assigned for each dimension instead of extended: only the last
\* dimension's suggestions are left
CombinedSuggestionsOverwritten(results) ==
    IF results = <<>> THEN <<>>
    ELSE [j \in 1..Len(results[Len(results)].suggestions) |->
            [focus |-> results[Len(results)].focus] @@ results[Len(results)].suggestions[j]]

RECURSIVE CombinedSuggestions(_)
\* graph.py:242-245: each dimension's suggestions, prefixed with "[focus]"
CombinedSuggestions(results) ==
    IF results = <<>> THEN <<>>
    ELSE [j \in 1..Len(Head(results).suggestions) |->
            [focus |-> Head(results).focus] @@ Head(results).suggestions[j]]
         \o CombinedSuggestions(Tail(results))

\* graph.py:231-239
CombinedEvaluation(results) ==
    [score       |-> OverallScore(results),
     dimensions  |-> results,
     comments    |-> CombinedComments(results),
     suggestions |-> CombinedSuggestions(results)]

\* ProposalState.latest_evaluation / current_proposal
HasEvaluation == Len(evaluations) > 0
latest_evaluation == evaluations[Len(evaluations)]
current_proposal == proposals[Len(proposals)]

\* the budget test written with > : one round too many
ArbitrateStatusLateBudget(iter, maxIter, score, excellent) ==
    IF iter > maxIter THEN "completed"
    ELSE IF score >= excellent THEN "completed"
    ELSE "refine"

\* the score test written with > : a score equal to the threshold refines
ArbitrateStatusStrictScore(iter, maxIter, score, excellent) ==
    IF iter >= maxIter THEN "completed"
    ELSE IF score > excellent THEN "completed"
    ELSE "refine"

\* the score test left out: only the budget ends a run
ArbitrateStatusNoThreshold(iter, maxIter, score, excellent) ==
    IF iter >= maxIter THEN "completed" ELSE "refine"

\* the budget test off by one: the last round is skipped
ArbitrateStatusEarlyBudget(iter, maxIter, score, excellent) ==
    IF iter + 1 >= maxIter THEN "completed"
    ELSE IF score >= excellent THEN "completed"
    ELSE "refine"

\* a budget of 0 or less read as no budget
ArbitrateStatusUnlimitedAtZero(iter, maxIter, score, excellent) ==
    IF maxIter > 0 /\ iter >= maxIter THEN "completed"
    ELSE IF score >= excellent THEN "completed"
    ELSE "refine"

\* graph.py:271-279, the status _arbitrate decides
ArbitrateStatus(iter, maxIter, score, excellent) ==
    IF iter >= maxIter THEN "completed"
    ELSE IF score >= excellent THEN "completed"
    ELSE "refine"

\* the two targets of the conditional edge exchanged
RouteSwapped(st) == IF st = "refine" THEN "end" ELSE "propose"

\* graph.py:312, the conditional edge after arbitrate
Route(st) == IF st = "refine" THEN "propose" ELSE "end"

\* iteration advanced twice for one proposal
IncrementIterationTwice(i) == i + 2

\* the list assigned anew instead of appended to
ReplaceProposals(ps, proposal) == <<proposal>>
ReplaceEvaluations(es, evaluation) == <<evaluation>>

\* graph.py:192, 193 and 248: the updates of the history
IncrementIteration(i) == i + 1
AppendProposal(ps, proposal) == Append(ps, proposal)
AppendEvaluation(es, evaluation) == Append(es, evaluation)

\* a failing critic is skipped and the loop goes on
EvaluateSkipsFailure(failing, n) == n = 0

\* graph.py:218-228, 253-255: an exception of a critic leaves the loop and
\* the node (failing = 0: no critic raised); without critics the mean
\* divides by zero
EvaluateRaises(failing, n) == failing # 0 \/ n = 0

\* a critic that raised is called once more before the node gives up
CriticsCalledWithRetry(failing, n) == IF failing # 0 THEN failing + 1 ELSE n

\* graph.py:218-225: the critics called by one evaluate step; the loop ends
\* at the first one that raises
CriticsCalled(failing, n) == IF failing # 0 THEN failing ELSE n

\* every propose step takes the branch of the first round
FirstRoundAlways(ps) == TRUE

\* graph.py:175: if not current_state.proposals
FirstRound(ps) == ps = <<>>

\* the critics are passed the first proposal of the run
EvaluatedProposalFirst(ps) == 1

\* graph.py:221: proposal_content = current_state.current_proposal, the index
\* in proposals of the text the critics are passed
EvaluatedProposal(ps) == Len(ps)

\* OptimizerAgent._format_evaluations (optimizer/core.py:59-98) for one entry:
\* what the section under its header carries.  Each part is written only if
\* the entry has the key "detailed_evaluations", "review_result" (with
\* "suggestions") or "final_score".
format_evaluation(eval) ==
    [detailed |->
        IF "detailed_evaluations" \in DOMAIN eval
        THEN [i \in DOMAIN eval.detailed_evaluations |->
                [focus |-> eval.detailed_evaluations[i].focus,
                 score |-> eval.detailed_evaluations[i].score,
                 suggestions |-> eval.detailed_evaluations[i].suggestions]]
        ELSE <<>>,
     review_suggestions |->
        IF "review_result" \in DOMAIN eval
        THEN IF "suggestions" \in DOMAIN eval.review_result
             THEN eval.review_result.suggestions ELSE <<>>
        ELSE <<>>,
     final_score |->
        IF "final_score" \in DOMAIN eval THEN <<eval.final_score>> ELSE <<>>]

\* optimizer/core.py:68-98: one section per evaluation, in list order
format_evaluations(es) == [i \in 1..Len(es) |-> format_evaluation(es[i])]

\* accumulate: a score given by the user is added to the one stored
UpdateAccumulating(evaluation, fields) ==
    [k \in DOMAIN evaluation |->
        IF k \in DOMAIN fields
        THEN IF k = "score" THEN evaluation[k] + fields[k] ELSE fields[k]
        ELSE evaluation[k]]

\* what the user answers to the first interrupt of _wait_user_feedback: a
\* value that is no dict, an empty dict, or a dict that overrides the score
\* (10.0 points)
Feedbacks ==
    { [isdict |-> FALSE, fields |-> <<>>],
      [isdict |-> TRUE,  fields |-> <<>>],
      [isdict |-> TRUE,  fields |-> [score |-> 10 * TicksPerPoint]] }

\* the answers to the second interrupt
Actions == {"continue", "stop"}

\* dict.update (graph.py:130) restricted to keys the evaluation has
Update(evaluation, fields) ==
    [k \in DOMAIN evaluation |-> IF k \in DOMAIN fields THEN fields[k] ELSE evaluation[k]]

\* graph.py:129-130: state.evaluations[-1].update(evaluation_feedback)
ApplyFeedback(es, evaluation_feedback) ==
    IF evaluation_feedback.isdict /\ Len(es) > 0
    THEN [es EXCEPT ![Len(es)] = Update(@, evaluation_feedback.fields)]
    ELSE es

\* _wait_user_feedback is not running
NoFeedback == [resume |-> <<>>, at_interrupt |-> <<>>]

-----------------------------------------------------------------------------
(* The agents, called on their own *)

\* what a call of an agent method gave: whether it raised and with what, the
\* value returned, the backend calls it made, and the analysis the optimizer used
Result(raised, error, value, backend_calls, analysis) ==
    [raised |-> raised, error |-> error, value |-> value,
     backend_calls |-> backend_calls, analysis |-> analysis]

\* no agent is used on its own during a run of the graph
IdleUnit ==
    [critic |-> "none", calls |-> 0,
     last |-> [op |-> "none", args |-> <<>>, result |-> Result(FALSE, "", "", 0, "none")]]

\* the goals argument: a list, or something else (a str in test_agents.py:153)
GoalsInputs == {[islist |-> TRUE], [islist |-> FALSE]}

\* one entry of the constraints argument: a dict with some of the keys, or not a dict
ConstraintItems ==
    {[isdict |-> FALSE, keys |-> {}]} \cup
    {[isdict |-> TRUE, keys |-> k] : k \in SUBSET {"type", "value"}}

\* the constraints argument: a list of entries, or something else
ConstraintsInputs ==
    {[islist |-> FALSE, items |-> <<>>]} \cup
    {[islist |-> TRUE, items |-> items] :
        items \in UNION {[1..n -> ConstraintItems] : n \in 0..MaxConstraints}}

\* the 'value' key of a constraint is not looked at
validate_input_type_only(constraints, goals) ==
    IF ~goals.islist THEN "ValueError"
    ELSE IF ~constraints.islist THEN "ValueError"
    ELSE IF \E i \in DOMAIN constraints.items :
                \/ ~constraints.items[i].isdict
                \/ "type" \notin constraints.items[i].keys
         THEN "ValueError"
    ELSE ""

\* ProposerAgent._validate_input (proposer/core.py:116-137): the exception
\* raised, "" when the arguments pass
validate_input(constraints, goals) ==
    IF ~goals.islist THEN "ValueError"
    ELSE IF ~constraints.islist THEN "ValueError"
    ELSE IF \E i \in DOMAIN constraints.items :
                \/ ~constraints.items[i].isdict
                \/ "type" \notin constraints.items[i].keys
                \/ "value" \notin constraints.items[i].keys
         THEN "ValueError"
    ELSE ""

\* ProposerAgent.generate (proposer/core.py:160-190): validation, then the
\* prompts, then one call of the backend whose response is returned; the
\* except clause re-raises what was raised
generate(constraints, goals, backend, text) ==
    IF validate_input(constraints, goals) # ""
    THEN Result(TRUE, validate_input(constraints, goals), "", 0, "none")
    ELSE IF backend = "raise"
    THEN Result(TRUE, "BackendError", "", 1, "none")
    ELSE Result(FALSE, "", text, 1, "none")

\* focus = None
NoFocus == "<None>"

\* the focus argument of CriticAgent: None, the empty string, the five
\* personas of CRITIC_PROMPTS and two names that are not personas
FocusInputs == {NoFocus, "", "security", "style"} \cup CRITIC_PROMPTS

\* critic/core.py:70: self.focus = focus or "default"
EffectiveFocus(focus) == IF focus = NoFocus \/ focus = "" THEN "default" ELSE focus

\* the focus is not checked against CRITIC_PROMPTS
CriticAgentUnchecked(focus, model) ==
    IF model = "raise"
    THEN Result(TRUE, "BackendError", "", 0, "none")
    ELSE Result(FALSE, "", EffectiveFocus(focus), 0, "none")

\* CriticAgent.__init__ (critic/core.py:60-74): QwenModel(model, api_version)
\* is built first, then the focus is defaulted and checked; value is self.focus
CriticAgent(focus, model) ==
    IF model = "raise"
    THEN Result(TRUE, "BackendError", "", 0, "none")
    ELSE IF EffectiveFocus(focus) \notin CRITIC_PROMPTS
    THEN Result(TRUE, "ValueError", "", 0, "none")
    ELSE Result(FALSE, "", EffectiveFocus(focus), 0, "none")

\* CriticAgent.evaluate_proposal (critic/core.py:128-166): one backend call,
\* then the parse of its result; either may raise and is re-raised
evaluate_proposal(backend, parse) ==
    IF backend = "raise" THEN Result(TRUE, "BackendError", "", 1, "none")
    ELSE IF parse = "raise" THEN Result(TRUE, "ParseError", "", 1, "none")
    ELSE Result(FALSE, "", "evaluation", 1, "none")

\* a failed structured analysis is re-raised
optimize_proposal_strict(analysis_prompt, analysis, optimization_prompt, optimization, text) ==
    IF analysis_prompt = "raise" THEN Result(TRUE, "PromptError", "", 0, "none")
    ELSE IF analysis = "raise" THEN Result(TRUE, "BackendError", "", 1, "none")
    ELSE IF optimization_prompt = "raise" THEN Result(TRUE, "PromptError", "", 1, "structured")
    ELSE IF optimization = "raise" THEN Result(TRUE, "BackendError", "", 2, "structured")
    ELSE Result(FALSE, "", text, 2, "structured")

\* OptimizerAgent.optimize_proposal (optimizer/core.py:174-211): the analysis
\* prompt is built, structured_analyzer.ainvoke is called and a default
\* AnalysisResult replaces it when it raises, the optimisation prompt is built,
\* self.model.ainvoke is called and its content returned
optimize_proposal(analysis_prompt, analysis, optimization_prompt, optimization, text) ==
    LET used == IF analysis = "raise" THEN "default" ELSE "structured" IN
    IF analysis_prompt = "raise" THEN Result(TRUE, "PromptError", "", 0, "none")
    ELSE IF optimization_prompt = "raise" THEN Result(TRUE, "PromptError", "", 1, used)
    ELSE IF optimization = "raise" THEN Result(TRUE, "BackendError", "", 2, used)
    ELSE Result(FALSE, "", text, 2, used)

-----------------------------------------------------------------------------
(* Retrieval and indexing *)

\* what RAGTool.retrieve returns or the tests make it return: a list of
\* dicts with "content" and "metadata" (rag.py:195-198, 205) or of Document
\* objects (test_tools.py:19-32), given here by the contents of its items
RetrievedDocuments ==
    [kind : {"dict", "Document"},
     contents : UNION {[1..n -> {"a", "b"}] : n \in 0..MaxDocuments}]

\* the text rag_retrieve returns: "未找到相关文档", "执行文档检索时出错: " and
\* the message, or the "文档 i:" blocks joined
Text(kind, message, parts) == [kind |-> kind, message |-> message, parts |-> parts]

\* tools.py:87-109.  tool: get_rag_tool(), which raises ValueError without the
\* COS credentials (tools.py:55-56); retrieve: rag_tool.retrieve(query);
\* doc.page_content raises AttributeError on a dict.  Every exception is
\* caught and turned into the error text.  backend_calls counts retrieve calls.
rag_retrieve(tool, retrieve, documents) ==
    IF tool = "raise"
    THEN Result(FALSE, "", Text("error", "ValueError", <<>>), 0, "none")
    ELSE IF retrieve = "raise"
    THEN Result(FALSE, "", Text("error", "retrieve raised", <<>>), 1, "none")
    ELSE IF documents.contents = <<>>
    THEN Result(FALSE, "", Text("not_found", "", <<>>), 1, "none")
    ELSE IF documents.kind = "dict"
    THEN Result(FALSE, "", Text("error", "AttributeError", <<>>), 1, "none")
    ELSE Result(FALSE, "",
                Text("documents", "",
                     [i \in 1..Len(documents.contents) |->
                        [label |-> i, content |-> documents.contents[i]]]),
                1, "none")

\* cos_document_processor.py:170
batch_size == 10

\* an object of the listing: a directory key, a file whose get_object or
\* whose _process_file raises, or a file split into 4 or 6 documents
ListedFiles ==
    {[kind |-> k, documents |-> 0] : k \in {"directory", "fetch_fails", "process_fails"}}
    \cup {[kind |-> "file", documents |-> n] : n \in {4, 6}}

\* the documents _process_file returns for the i-th listed object
Documents(i, n) == [j \in 1..n |-> <<i, j>>]

\* processing_callback(current_batch): the call is recorded; it raises if it
\* is the failing-th call of the callback
CallbackRaises(calls, failing) == Len(calls) + 1 = failing

RECURSIVE load_files_stop_at_error(_, _, _, _, _)
\* the loop is left at the first file that fails
load_files_stop_at_error(files, i, current_batch, calls, failing) ==
    IF i > Len(files)
    THEN IF current_batch # <<>>
         THEN [calls |-> Append(calls, current_batch),
               raised |-> CallbackRaises(calls, failing)]
         ELSE [calls |-> calls, raised |-> FALSE]
    ELSE IF files[i].kind = "directory"
    THEN load_files_stop_at_error(files, i + 1, current_batch, calls, failing)
    ELSE IF files[i].kind \in {"fetch_fails", "process_fails"}
    THEN load_files_stop_at_error(files, Len(files) + 1, current_batch, calls, failing)
    ELSE LET extended == current_batch \o Documents(i, files[i].documents) IN
         IF Len(extended) >= batch_size
         THEN load_files_stop_at_error(files, i + 1,
                  IF CallbackRaises(calls, failing) THEN extended ELSE <<>>,
                  Append(calls, extended), failing)
         ELSE load_files_stop_at_error(files, i + 1, extended, calls, failing)

RECURSIVE load_files(_, _, _, _, _)
\* the loop of cos_document_processor.py:173-203 from the i-th listed object
\* on.  A directory key is skipped; get_object or _process_file raising skips
\* the file; its documents extend current_batch, which is passed to the
\* callback and emptied once it holds batch_size documents; a callback that
\* raises there is caught like a file error, before current_batch is emptied.
\* After the loop the rest is passed, outside the inner try.
load_files(files, i, current_batch, calls, failing) ==
    IF i > Len(files)
    THEN IF current_batch # <<>>
         THEN [calls |-> Append(calls, current_batch),
               raised |-> CallbackRaises(calls, failing)]
         ELSE [calls |-> calls, raised |-> FALSE]
    ELSE IF files[i].kind = "directory"
    THEN load_files(files, i + 1, current_batch, calls, failing)
    ELSE IF files[i].kind \in {"fetch_fails", "process_fails"}
    THEN load_files(files, i + 1, current_batch, calls, failing)
    ELSE LET extended == current_batch \o Documents(i, files[i].documents) IN
         IF Len(extended) >= batch_size
         THEN load_files(files, i + 1,
                  IF CallbackRaises(calls, failing) THEN extended ELSE <<>>,
                  Append(calls, extended), failing)
         ELSE load_files(files, i + 1, extended, calls, failing)

\* load_and_index_files (cos_document_processor.py:149-207).  listing:
\* list_objects raises, answers without 'Contents', or lists the files.
\* value: the batches passed to the callback, in call order.
load_and_index_files(listing, files, failing) ==
    IF listing = "raise" THEN Result(TRUE, "ListError", <<>>, 0, "none")
    ELSE IF listing = "no_contents" THEN Result(FALSE, "", <<>>, 0, "none")
    ELSE LET loaded == load_files(files, 1, <<>>, <<>>, failing) IN
         Result(loaded.raised, IF loaded.raised THEN "CallbackError" ELSE "",
                loaded.calls, 0, "none")

-----------------------------------------------------------------------------
(* The run *)

\* ProposalState as built from the ProposalInput (graph.py:25-33) and
\* ProposalWorkflow.__init__ (graph.py:57-62); the run's configuration is an input
RunInit ==
    /\ pc = "init_agents"
    /\ proposals = <<>>
    /\ evaluations = <<>>
    /\ status = "init"
    /\ iteration = 0
    /\ max_iterations = DefaultMaxIterations
    /\ excellent_score = DefaultExcellentScore
    /\ config \in Configurables
    /\ configuration = NoConfiguration
    /\ critics = <<>>
    /\ steps = [init_agents |-> 0, propose |-> 0, evaluate |-> 0, arbitrate |-> 0,
                generate |-> 0, optimize |-> 0, wait_user_feedback |-> 0,
                critic_calls |-> 0, critic_failures |-> 0,
                rag_failures |-> 0, backend_failures |-> 0,
                revised |-> 0, evaluation_results |-> <<>>, evaluated |-> <<>>]
    /\ agents = NoAgents
    /\ feedback = NoFeedback

Init == RunInit /\ unit = IdleUnit

\* the node had advanced iteration before the call that raised
RaiseAfterIncrement ==
    /\ pc' = "failed"
    /\ iteration' = iteration + 1
    /\ UNCHANGED <<proposals, evaluations, status, max_iterations, excellent_score>>

\* a node raised: LangGraph writes none of its updates and the run ends
Raise ==
    /\ pc' = "failed"
    /\ UNCHANGED stateFields

\* _init_agents (graph.py:64-99).  constructors = "raise": one of the agent
\* constructors raised, after self.configuration was assigned; a CriticAgent
\* raises for the focus it is given.
InitAgents ==
    /\ pc = "init_agents"
    /\ steps' = [steps EXCEPT !.init_agents = @ + 1]
    /\ configuration' = from_runnable_config(config)
    /\ UNCHANGED <<config, unit, feedback>>
    /\ \E constructors \in Outcomes :
         IF \/ constructors = "raise"
            \/ \E i \in DOMAIN CriticFocuses : CriticAgent(CriticFocuses[i], "ok").raised
         THEN Raise /\ UNCHANGED <<critics, agents>>
         ELSE /\ critics' = CriticFocuses
              /\ agents' = AgentsOf(configuration')
              /\ max_iterations' = configuration'.max_iterations
              /\ excellent_score' = configuration'.excellent_score
              /\ pc' = "propose"
              /\ UNCHANGED <<proposals, evaluations, status, iteration>>

\* _generate_proposal (graph.py:150-200).  rag: get_rag_tool()/retrieve;
\* backend: ProposerAgent.generate on the first round, else
\* OptimizerAgent.optimize_proposal, which is passed the latest proposal and
\* the evaluations list and formats the latter for its analysis prompt;
\* text: what the backend returned.
GenerateProposal ==
    /\ pc = "propose"
    /\ UNCHANGED <<config, configuration, critics, agents, unit, feedback>>
    /\ \E rag \in Outcomes, backend \in Outcomes, text \in BackendTexts :
         IF rag = "raise"
         THEN /\ Raise
              /\ steps' = [steps EXCEPT !.propose = @ + 1, !.rag_failures = @ + 1]
         ELSE /\ steps' = [steps EXCEPT
                    !.propose = @ + 1,
                    !.generate = IF FirstRound(proposals) THEN @ + 1 ELSE @,
                    !.optimize = IF FirstRound(proposals) THEN @ ELSE @ + 1,
                    !.backend_failures = IF backend = "raise" THEN @ + 1 ELSE @,
                    !.revised = IF FirstRound(proposals) THEN @ ELSE Len(proposals),
                    !.evaluation_results =
                        IF FirstRound(proposals) THEN @ ELSE format_evaluations(evaluations)]
              /\ IF backend = "raise"
                 THEN Raise
                 ELSE /\ iteration' = IncrementIteration(iteration)
                      /\ proposals' = AppendProposal(proposals, text)
                      /\ status' = "generated"
                      /\ pc' = "evaluate"
                      /\ UNCHANGED <<evaluations, max_iterations, excellent_score>>

\* _evaluate_proposal (graph.py:202-255).  failing = 0: every critic returned
\* a parsable response; failing = i: the i-th critic raised.
EvaluateProposal ==
    /\ pc = "evaluate"
    /\ UNCHANGED <<config, configuration, critics, agents, unit, feedback>>
    /\ \E failing \in 0..Len(critics), responses \in [1..Len(critics) -> CriticResponses] :
         /\ steps' = [steps EXCEPT !.evaluate = @ + 1,
                                   !.critic_calls = @ + CriticsCalled(failing, Len(critics)),
                                   !.critic_failures = IF failing # 0 THEN @ + 1 ELSE @,
                                   !.evaluated =
                                       IF EvaluateRaises(failing, Len(critics)) THEN @
                                       ELSE Append(@, EvaluatedProposal(proposals))]
         /\ IF EvaluateRaises(failing, Len(critics))
            THEN Raise
            ELSE
              /\ evaluations' = AppendEvaluation(evaluations,
                                   CombinedEvaluation(EvaluationResults(critics, responses)))
              /\ status' = "evaluated"
              /\ pc' = "arbitrate"
              /\ UNCHANGED <<proposals, iteration, max_iterations, excellent_score>>

\* _arbitrate (graph.py:257-285) and the conditional edge (graph.py:310-317).
\* Subscripting a missing latest_evaluation raises.
Arbitrate ==
    /\ pc = "arbitrate"
    /\ steps' = [steps EXCEPT !.arbitrate = @ + 1]
    /\ UNCHANGED <<config, configuration, critics, agents, unit, feedback>>
    /\ IF iteration < max_iterations /\ ~HasEvaluation
       THEN Raise
       ELSE /\ status' = ArbitrateStatus(iteration, max_iterations,
                                         IF HasEvaluation THEN latest_evaluation.score ELSE 0,
                                         excellent_score)
            /\ pc' = Route(status')
            /\ UNCHANGED <<proposals, evaluations, iteration, max_iterations, excellent_score>>

Next == InitAgents \/ GenerateProposal \/ EvaluateProposal \/ Arbitrate

Spec == Init /\ [][Next]_vars

\* the graph runner executes the next node as long as there is one
FairSpec == Spec /\ WF_vars(Next)

\* _wait_user_feedback (graph.py:101-148) with both interrupts answered.
\* create_graph registers no node for it; here a host runs it where its
\* docstring places it, on the state evaluate produced and before arbitrate.
WaitUserFeedback ==
    /\ pc = "arbitrate"
    /\ status = "evaluated"
    /\ steps' = [steps EXCEPT !.wait_user_feedback = @ + 1]
    /\ \E evaluation_feedback \in Feedbacks, action \in Actions :
         /\ evaluations' = ApplyFeedback(evaluations, evaluation_feedback)
         /\ status' = IF action = "stop" THEN "completed" ELSE "refine"
    /\ UNCHANGED <<pc, proposals, iteration, max_iterations, excellent_score,
                   config, configuration, critics, agents, unit, feedback>>

NextWithFeedback == Next \/ WaitUserFeedback

FeedbackSpec == Init /\ [][NextWithFeedback]_vars

\* _wait_user_feedback (graph.py:101-148) up to its first interrupt
\* (graph.py:119): the node is suspended before it has changed anything
InterruptEvaluationFeedback ==
    /\ pc = "arbitrate"
    /\ status = "evaluated"
    /\ pc' = "evaluation_feedback"
    /\ feedback' = [feedback EXCEPT !.resume = <<>>, !.at_interrupt = evaluations]
    /\ UNCHANGED <<proposals, evaluations, status, iteration, max_iterations,
                   excellent_score, config, configuration, critics, steps, agents, unit>>

\* the run resumed with the answer to the first interrupt.  The node runs
\* again from its first line: interrupt() returns the answer, the update
\* statement (graph.py:129-130) runs on the state object, and the second
\* interrupt (graph.py:133) suspends the node, which has returned nothing.
\* The dict updated in place is the checkpoint's object or a copy of it.
ResumeEvaluationFeedback ==
    /\ pc = "evaluation_feedback"
    /\ pc' = "action_choice"
    /\ \E evaluation_feedback \in Feedbacks :
         /\ feedback' = [feedback EXCEPT !.resume = <<evaluation_feedback>>]
         /\ evaluations' \in {evaluations, ApplyFeedback(evaluations, evaluation_feedback)}
    /\ UNCHANGED <<proposals, status, iteration, max_iterations, excellent_score,
                   config, configuration, critics, steps, agents, unit>>

\* the run resumed with the answer to the second interrupt.  The node runs
\* again from its first line: the first interrupt() returns the answer kept
\* from the first resume, the update statement runs again, the second
\* interrupt() returns the action, and the node returns the state.
ResumeActionChoice ==
    /\ pc = "action_choice"
    /\ pc' = "arbitrate"
    /\ steps' = [steps EXCEPT !.wait_user_feedback = @ + 1]
    /\ feedback' = NoFeedback
    /\ evaluations' = ApplyFeedback(evaluations, feedback.resume[1])
    /\ \E action \in Actions :
         status' = IF action = "stop" THEN "completed" ELSE "refine"
    /\ UNCHANGED <<proposals, iteration, max_iterations, excellent_score,
                   config, configuration, critics, agents, unit>>

NextWithInterrupts ==
    \/ Next
    \/ InterruptEvaluationFeedback
    \/ ResumeEvaluationFeedback
    \/ ResumeActionChoice

\* a run with the default budget (configuration.py:52-53)
ResumeInit == Init /\ config.max_iterations = DefaultMaxIterations

ResumeSpec == ResumeInit /\ [][NextWithInterrupts]_vars

\* _init_agents (graph.py:64-99) run by another run of the same compiled
\* graph: the nodes are bound methods of one ProposalWorkflow object, so the
\* other run's agents and configuration replace those on self.  The method
\* awaits nothing, so it runs between two steps of this run.
OtherRunInitAgents ==
    /\ configuration' = from_runnable_config(OtherConfigurable)
    /\ critics' = CriticFocuses
    /\ agents' = AgentsOf(configuration')
    /\ UNCHANGED <<pc, proposals, evaluations, status, iteration, max_iterations,
                   excellent_score, config, steps, unit, feedback>>

NextConcurrent == Next \/ OtherRunInitAgents

ConcurrentSpec == Init /\ [][NextConcurrent]_vars

\* the harness of tests/unit_tests/test_agents.py after one call of an
\* agent: the call is counted and remembered with its arguments
AfterCall(op, args, result, critic) ==
    [critic |-> critic,
     calls |-> unit.calls + result.backend_calls,
     last |-> [op |-> op, args |-> args, result |-> result]]

runFields == <<pc, proposals, evaluations, status, iteration, max_iterations,
               excellent_score, config, configuration, critics, steps, agents, feedback>>

\* critic = CriticAgent(focus=focus): the name is bound only if the constructor returns
ConstructCritic ==
    \E focus \in FocusInputs, model \in Outcomes :
        LET result == CriticAgent(focus, model) IN
        /\ unit' = AfterCall("CriticAgent", [focus |-> focus], result,
                             IF result.raised THEN unit.critic ELSE result.value)
        /\ UNCHANGED runFields

\* await critic.evaluate_proposal(...), on a critic that was constructed
CriticEvaluate ==
    /\ unit.critic # "none"
    /\ \E backend \in Outcomes, parse \in Outcomes :
        LET result == evaluate_proposal(backend, parse) IN
        /\ unit.calls + result.backend_calls <= MaxBackendCalls
        /\ unit' = AfterCall("evaluate_proposal", [focus |-> unit.critic], result,
                             unit.critic)
        /\ UNCHANGED runFields

\* await proposer.generate(input, constraints, goals)
ProposerGenerate ==
    \E constraints \in ConstraintsInputs, goals \in GoalsInputs,
       backend \in Outcomes, text \in BackendTexts :
        LET result == generate(constraints, goals, backend, text) IN
        /\ unit.calls + result.backend_calls <= MaxBackendCalls
        /\ unit' = AfterCall("generate", [constraints |-> constraints, goals |-> goals],
                             result, unit.critic)
        /\ UNCHANGED runFields

\* await optimizer.optimize_proposal(current_proposal, evaluations)
OptimizerOptimize ==
    \E analysis_prompt \in Outcomes, analysis \in Outcomes,
       optimization_prompt \in Outcomes, optimization \in Outcomes,
       text \in BackendTexts :
        LET result == optimize_proposal(analysis_prompt, analysis, optimization_prompt,
                                        optimization, text) IN
        /\ unit.calls + result.backend_calls <= MaxBackendCalls
        /\ unit' = AfterCall("optimize_proposal",
                             [analysis_prompt |-> analysis_prompt, analysis |-> analysis,
                              optimization_prompt |-> optimization_prompt,
                              optimization |-> optimization],
                             result, unit.critic)
        /\ UNCHANGED runFields

UnitInit ==
    /\ Init
    /\ config.max_iterations = DefaultMaxIterations
    /\ config.excellent_score = TicksPerPoint * 8

NextUnit == ConstructCritic \/ CriticEvaluate \/ ProposerGenerate \/ OptimizerOptimize

UnitSpec == UnitInit /\ [][NextUnit]_vars

\* the calls of rag_retrieve the tests of test_tools.py make, and more
RagRetrieveCalls ==
    [function : {"rag_retrieve"}, tool : Outcomes, retrieve : Outcomes,
     documents : RetrievedDocuments]

\* the calls of load_and_index_files: the listing and, when there is one,
\* the listed objects and the call of the callback that raises (0: none)
LoadAndIndexCalls ==
    [function : {"load_and_index_files"}, listing : {"raise", "no_contents"},
     files : {<<>>}, failing : {0}]
    \cup [function : {"load_and_index_files"}, listing : {"contents"},
          files : UNION {[1..n -> ListedFiles] : n \in 0..MaxFiles},
          failing : 0..MaxFiles]

\* one call is about to be made
RetrievalInit ==
    /\ RunInit
    /\ config.max_iterations = DefaultMaxIterations
    /\ config.excellent_score = TicksPerPoint * 8
    /\ \E call \in RagRetrieveCalls \cup LoadAndIndexCalls :
         unit = [IdleUnit EXCEPT !.last = [op |-> "pending", args |-> call,
                                           result |-> Result(FALSE, "", "", 0, "none")]]

\* result = rag_retrieve(query)
RagRetrieve ==
    /\ unit.last.op = "pending"
    /\ unit.last.args.function = "rag_retrieve"
    /\ unit' = AfterCall("rag_retrieve", unit.last.args,
                         rag_retrieve(unit.last.args.tool, unit.last.args.retrieve,
                                      unit.last.args.documents),
                         unit.critic)
    /\ UNCHANGED runFields

\* processor.load_and_index_files(processing_callback=callback)
LoadAndIndexFiles ==
    /\ unit.last.op = "pending"
    /\ unit.last.args.function = "load_and_index_files"
    /\ unit' = AfterCall("load_and_index_files", unit.last.args,
                         load_and_index_files(unit.last.args.listing, unit.last.args.files,
                                              unit.last.args.failing),
                         unit.critic)
    /\ UNCHANGED runFields

NextRetrieval == RagRetrieve \/ LoadAndIndexFiles

RetrievalSpec == RetrievalInit /\ [][NextRetrieval]_vars

-----------------------------------------------------------------------------
(* Properties *)

Ended == pc = "end"
Failed == pc = "failed"

\* every composite score of the run is below the threshold
AllBelowThreshold == \A k \in 1..Len(evaluations) : evaluations[k].score < excellent_score

\* C1 - Termination guarantee: with max_iterations M >= 1 the propose step
\* runs at most M times and at most M proposals exist, whatever the scores;
\* and every run ends, either failed (a call raised) or at END with status
\* 'completed'.
C1_Termination ==
    /\ [](config.max_iterations >= 1 =>
            /\ steps.propose <= config.max_iterations
            /\ Len(proposals) <= config.max_iterations)
    /\ [](Ended => status = "completed")
    /\ <>(Failed \/ (Ended /\ status = "completed"))

\* a run that used its whole budget of three rounds and ended
C1_Witness ==
    /\ Ended
    /\ status = "completed"
    /\ config.max_iterations = 3
    /\ steps.propose = 3
    /\ Len(proposals) = 3

\* C2 - Arbitration decision: a step of _arbitrate that returns sets status
\* to 'completed' when iteration >= max_iterations, else to 'completed' when
\* the latest composite score >= excellent_score, else to 'refine'; 'refine'
\* exactly when iteration < max_iterations and score < excellent_score; and
\* it changes no other field of the state.
C2_ArbitrationDecision ==
    [][ (steps'.arbitrate = steps.arbitrate + 1 /\ pc' # "failed") =>
          /\ iteration >= max_iterations => status' = "completed"
          /\ (iteration < max_iterations /\ latest_evaluation.score >= excellent_score)
                => status' = "completed"
          /\ (iteration < max_iterations /\ latest_evaluation.score < excellent_score)
                => status' = "refine"
          /\ status' = "refine" <=>
                (iteration < max_iterations /\ latest_evaluation.score < excellent_score)
          /\ UNCHANGED <<proposals, evaluations, iteration, max_iterations, excellent_score>>
      ]_vars

\* arbitration completed a run on the budget although the score was below
\* the threshold, after an earlier round had been sent back for refinement
C2_Witness ==
    /\ Ended
    /\ status = "completed"
    /\ steps.arbitrate = 2
    /\ iteration >= max_iterations
    /\ latest_evaluation.score < excellent_score

\* C3 - Threshold short-circuit: when the composite score of round K is >=
\* excellent_score and K < max_iterations, no proposal K+1 is ever generated:
\* the run is about to arbitrate round K or has ended with status 'completed'.
C3_ThresholdShortCircuit ==
    \A k \in 1..Len(evaluations) :
        (evaluations[k].score >= excellent_score /\ k < max_iterations) =>
            /\ Len(proposals) = k
            /\ steps.propose = k
            /\ \/ pc = "arbitrate" /\ steps.arbitrate = k - 1
               \/ Ended /\ status = "completed" /\ steps.arbitrate = k

\* a first round below the threshold, a second at or above it, and the run
\* over after two of its three rounds
C3_Witness ==
    /\ Ended
    /\ status = "completed"
    /\ max_iterations = 3
    /\ Len(evaluations) = 2
    /\ evaluations[1].score < excellent_score
    /\ evaluations[2].score >= excellent_score
    /\ Len(proposals) = 2

\* C4 - Budget exhaustion: a run with max_iterations M >= 1 whose composite
\* scores are all below excellent_score ends only after exactly M propose
\* steps and M evaluate steps, with status 'completed'.
C4_BudgetExhaustion ==
    (Ended /\ max_iterations >= 1 /\ AllBelowThreshold) =>
        /\ steps.propose = max_iterations
        /\ steps.evaluate = max_iterations
        /\ Len(proposals) = max_iterations
        /\ Len(evaluations) = max_iterations
        /\ status = "completed"

\* max_iterations = 2, both composite scores below the threshold, run ended
C4_Witness ==
    /\ Ended
    /\ max_iterations = 2
    /\ Len(evaluations) = 2
    /\ AllBelowThreshold
    /\ status = "completed"

\* both lists keep their length or grow, and keep every element they have
HistoryKept ==
    /\ Len(proposals') >= Len(proposals)
    /\ Len(evaluations') >= Len(evaluations)
    /\ \A i \in 1..Len(proposals) : proposals'[i] = proposals[i]
    /\ \A i \in 1..Len(evaluations) : evaluations'[i] = evaluations[i]

\* C5 - Append-only history: in every step of the workflow, the user-feedback
\* step included, proposals and evaluations never shrink and no element
\* already appended is modified.
C5_AppendOnly == [][HistoryKept]_vars

\* C6 - Round parity: counting rounds from N = 0 (N = the arbitrations done
\* so far), right after the propose step of round N len(proposals) = N+1 and
\* right after its evaluate step len(evaluations) = N+1; every propose step
\* that ran appended one proposal, every evaluate step one evaluation.
C6_RoundParity ==
    /\ pc = "evaluate" =>
          /\ Len(proposals) = steps.arbitrate + 1
          /\ Len(proposals) = steps.propose
    /\ pc = "arbitrate" =>
          /\ Len(evaluations) = steps.arbitrate + 1
          /\ Len(evaluations) = steps.evaluate
          /\ Len(proposals) = Len(evaluations)

\* right after the evaluate step of round 2 (the third round)
C6_Witness ==
    /\ pc = "arbitrate"
    /\ steps.arbitrate = 2
    /\ Len(proposals) = 3
    /\ Len(evaluations) = 3

\* C7 - Iteration counter: iteration starts at 0, grows by exactly 1 in a
\* step that appends a proposal and is left alone by every other step, never
\* decreases, and equals len(proposals) in every state between steps.
C7_IterationCounter ==
    /\ iteration = 0
    /\ [](iteration = Len(proposals))
    /\ [][ /\ iteration' >= iteration
           /\ iteration' - iteration = Len(proposals') - Len(proposals)
           /\ iteration' - iteration \in {0, 1}
           /\ (iteration' = iteration + 1) <=> (steps'.propose = steps.propose + 1 /\ pc' # "failed")
         ]_vars

\* the state after the second proposal was appended
C7_Witness ==
    /\ pc = "evaluate"
    /\ iteration = 2
    /\ Len(proposals) = 2

\* C8 - Evaluation lag: len(evaluations) <= len(proposals) <= len(evaluations) + 1
C8_EvaluationLag ==
    /\ Len(evaluations) <= Len(proposals)
    /\ Len(proposals) <= Len(evaluations) + 1

\* a second proposal awaiting its evaluation
C8_Witness ==
    /\ pc = "evaluate"
    /\ Len(proposals) = 2
    /\ Len(evaluations) = 1

\* C9 - Composite score: the score of every composite evaluation is the
\* unweighted arithmetic mean of the scores stored in its dimensions.
C9_CompositeScore ==
    \A k \in 1..Len(evaluations) :
        /\ Len(evaluations[k].dimensions) > 0
        /\ evaluations[k].score * Len(evaluations[k].dimensions)
              = SumScores(evaluations[k].dimensions)

\* a composite of three dimensions whose scores are not all the same
C9_Witness ==
    \E k \in 1..Len(evaluations) :
        /\ Len(evaluations[k].dimensions) = 3
        /\ evaluations[k].dimensions[1].score # evaluations[k].dimensions[2].score
        /\ evaluations[k].dimensions[1].score + evaluations[k].dimensions[2].score
             + evaluations[k].dimensions[3].score = 3 * evaluations[k].score

\* the order in which the dimensions are configured
ConfiguredOrder == <<"logic", "completeness", "feasibility">>

\* C10 - Narrative order: the comments of every composite evaluation are the
\* header followed by one line per dimension, labelled with the dimension's
\* name and carrying that dimension's feedback, in the configured order
\* logic, completeness, feasibility.
C10_NarrativeOrder ==
    \A k \in 1..Len(evaluations) :
        /\ Len(evaluations[k].comments) = 1 + Len(ConfiguredOrder)
        /\ Len(evaluations[k].dimensions) = Len(ConfiguredOrder)
        /\ \A i \in 1..Len(ConfiguredOrder) :
              /\ evaluations[k].dimensions[i].focus = ConfiguredOrder[i]
              /\ evaluations[k].comments[i + 1].label = ConfiguredOrder[i]
              /\ evaluations[k].comments[i + 1].text = evaluations[k].dimensions[i].comments

\* a composite whose first and last dimension gave different feedback
C10_Witness ==
    \E k \in 1..Len(evaluations) :
        /\ Len(evaluations[k].comments) = 4
        /\ evaluations[k].comments[2].text # evaluations[k].comments[4].text
        /\ evaluations[k].comments[2].label = "logic"
        /\ evaluations[k].comments[4].label = "feasibility"

RECURSIVE SuggestionsBefore(_, _)
\* the number of suggestions of the dimensions in front of the i-th
SuggestionsBefore(dimensions, i) ==
    IF i <= 1 THEN 0
    ELSE SuggestionsBefore(dimensions, i - 1) + Len(dimensions[i - 1].suggestions)

\* C11 - Suggestion flattening: the suggestions of every composite evaluation
\* are, dimension after dimension in the configured order, that dimension's
\* suggestions in their own order, each carrying the dimension's name as its
\* prefix; the list has no other entry.
C11_SuggestionFlattening ==
    \A k \in 1..Len(evaluations) :
        LET e == evaluations[k]
            n == Len(e.dimensions)
        IN  /\ n = Len(ConfiguredOrder)
            /\ Len(e.suggestions) = SuggestionsBefore(e.dimensions, n + 1)
            /\ \A i \in 1..n :
                 \A j \in 1..Len(e.dimensions[i].suggestions) :
                    LET entry == e.suggestions[SuggestionsBefore(e.dimensions, i) + j]
                    IN  /\ entry.focus = ConfiguredOrder[i]
                        /\ entry.goal = e.dimensions[i].suggestions[j].goal
                        /\ entry.text = e.dimensions[i].suggestions[j].text

\* a composite whose dimensions brought two, one and two suggestions
C11_Witness ==
    \E k \in 1..Len(evaluations) :
        /\ Len(evaluations[k].dimensions[1].suggestions) = 2
        /\ Len(evaluations[k].dimensions[2].suggestions) = 1
        /\ Len(evaluations[k].dimensions[3].suggestions) = 2
        /\ Len(evaluations[k].suggestions) = 5
        /\ evaluations[k].suggestions[3].focus = "completeness"

\* the evaluate step in which a critic raised
CriticRaisedStep == steps'.critic_failures = steps.critic_failures + 1

\* C12 - Aggregation is all-or-nothing: an evaluate step in which a critic
\* raises ends the run with the error and leaves evaluations and status as
\* they were; an evaluate step that appends appends a composite with a
\* result for each of the configured dimensions.
C12_AllOrNothing ==
    /\ [][ /\ CriticRaisedStep =>
                /\ pc' = "failed"
                /\ UNCHANGED <<evaluations, status>>
           /\ Len(evaluations') > Len(evaluations) =>
                /\ ~CriticRaisedStep
                /\ Len(evaluations'[Len(evaluations')].dimensions) = Len(ConfiguredOrder)
                /\ \A i \in 1..Len(ConfiguredOrder) :
                      evaluations'[Len(evaluations')].dimensions[i].focus = ConfiguredOrder[i]
         ]_vars
    /\ [](\A k \in 1..Len(evaluations) :
              Len(evaluations[k].dimensions) = Len(ConfiguredOrder))

\* the second of the three critics raised in the second round: two critic
\* calls were made in that step, and the first round's evaluation is all there is
C12_Witness ==
    /\ Failed
    /\ steps.critic_failures = 1
    /\ steps.evaluate = 2
    /\ steps.critic_calls = 5
    /\ Len(evaluations) = 1
    /\ status = "generated"

\* the propose step that raised
ProposeRaisedStep == steps'.propose = steps.propose + 1 /\ pc' = "failed"

\* C15 - Failed generation leaves the state untouched: a propose step that
\* raises ends the run with the error and leaves proposals, iteration,
\* evaluations and status as they were; it never sets status to 'completed'.
C15_FailedGeneration ==
    [][ ProposeRaisedStep =>
          /\ UNCHANGED <<proposals, iteration, evaluations, status>>
          /\ status' # "completed"
      ]_vars

\* the Revision Unit was invoked in the second round and raised
C15_Witness ==
    /\ Failed
    /\ steps.propose = 2
    /\ steps.optimize = 1
    /\ Len(proposals) = 1
    /\ iteration = 1
    /\ status = "refine"

\* C16 - Non-empty proposals: every text in proposals is non-empty.
C16_NonEmptyProposals == \A i \in 1..Len(proposals) : proposals[i] # ""

StatusMoves ==
    { <<"init", "generated">>, <<"generated", "evaluated">>,
      <<"evaluated", "refine">>, <<"evaluated", "completed">>,
      <<"refine", "generated">> }

NodeOrder ==
    { <<"init_agents", "propose">>, <<"propose", "evaluate">>,
      <<"evaluate", "arbitrate">>, <<"arbitrate", "propose">>,
      <<"arbitrate", "end">> }

\* C18 - Status state machine: status changes only along init -> generated
\* -> evaluated -> {refine, completed} and refine -> generated; the nodes run
\* in the cyclic order propose, evaluate, arbitrate (or the run fails);
\* once status is 'completed' no step changes anything; a run that reaches
\* END has status 'completed'.
C18_StatusMachine ==
    /\ [][ /\ status' # status => <<status, status'>> \in StatusMoves
           /\ pc' # pc => (<<pc, pc'>> \in NodeOrder \/ pc' = "failed")
           /\ status = "completed" => UNCHANGED vars
         ]_vars
    /\ [](Ended => status = "completed")
    /\ [](status = "completed" => Ended)

\* a run that went through refine once and then completed
C18_Witness ==
    /\ Ended
    /\ status = "completed"
    /\ steps.arbitrate = 2
    /\ steps.propose = 2
    /\ steps.evaluate = 2

\* C19 - One score scale: the score a dimension contributes to the composite
\* is the raw overall_score r the critic's backend reported, on the [0,10]
\* scale of excellent_score (r points = r * TicksPerPoint ticks), not r/10.
C19_OneScoreScale ==
    \A k \in 1..Len(evaluations) :
        \A i \in 1..Len(evaluations[k].dimensions) :
            \E response \in CriticResponses :
                /\ evaluations[k].dimensions[i].comments = response.overall_feedback
                /\ evaluations[k].dimensions[i].score = response.overall_score * TicksPerPoint

\* C20 - Run isolation: when a node of this run is about to run, the agents
\* on the workflow object and the configuration it holds are those derived
\* from this run's own configurable, and so are the run's max_iterations and
\* excellent_score, whatever another run's init step did in between.
C20_RunIsolation ==
    pc \in {"propose", "evaluate", "arbitrate"} =>
        /\ configuration = from_runnable_config(config)
        /\ agents = AgentsOf(from_runnable_config(config))
        /\ max_iterations = config.max_iterations
        /\ excellent_score = config.excellent_score

InvalidInput(args) ==
    \/ ~args.goals.islist
    \/ ~args.constraints.islist
    \/ \E i \in DOMAIN args.constraints.items :
          \/ ~args.constraints.items[i].isdict
          \/ {"type", "value"} \ args.constraints.items[i].keys # {}

\* C13 - Input validation precedes the backend: a call of generate with
\* goals that are not a list, constraints that are not a list, or a
\* constraint that is not a dict carrying both 'type' and 'value' raises
\* ValueError and leaves the count of backend calls where it was.
C13_ValidationPrecedesBackend ==
    [][(unit' # unit /\ unit'.last.op = "generate" /\ InvalidInput(unit'.last.args)) =>
          /\ unit'.last.result.raised
          /\ unit'.last.result.error = "ValueError"
          /\ unit'.last.result.backend_calls = 0
          /\ unit'.calls = unit.calls]_vars

C13_Witness ==
    /\ unit.last.op = "generate"
    /\ unit.last.args.goals.islist
    /\ unit.last.args.constraints.islist
    /\ Len(unit.last.args.constraints.items) = 1
    /\ unit.last.args.constraints.items[1] = [isdict |-> TRUE, keys |-> {"type"}]
    /\ unit.last.result.error = "ValueError"
    /\ unit.calls > 0

\* the focus names that are neither a persona nor read as a missing focus
UnknownFocuses == FocusInputs \ (CRITIC_PROMPTS \cup {NoFocus, ""})

\* C14 as stated - every focus name outside the known personas makes the
\* constructor raise.
C14_UnknownFocusRaises ==
    (unit.last.op = "CriticAgent" /\ unit.last.args.focus # NoFocus
        /\ unit.last.args.focus \notin CRITIC_PROMPTS) =>
        unit.last.result.raised

\* C14 - Unsupported dimension fails at construction: a non-empty focus name
\* outside the known personas makes the constructor raise without a backend
\* call, a missing or empty focus gives the 'default' persona, every critic
\* that exists has a known persona, and evaluate_proposal only ever runs on
\* such a critic.
C14_UnsupportedDimension ==
    /\ unit.critic \in CRITIC_PROMPTS \cup {"none"}
    /\ (unit.last.op = "CriticAgent" /\ unit.last.args.focus \in UnknownFocuses) =>
          /\ unit.last.result.raised
          /\ unit.last.result.backend_calls = 0
    /\ (unit.last.op = "CriticAgent" /\ unit.last.args.focus \in {NoFocus, ""}
          /\ ~unit.last.result.raised) => unit.critic = "default"
    /\ unit.last.op = "evaluate_proposal" =>
          /\ unit.last.args.focus \in CRITIC_PROMPTS
          /\ unit.critic = unit.last.args.focus

C14_Witness ==
    /\ unit.last.op = "CriticAgent"
    /\ unit.last.args.focus = "style"
    /\ unit.last.result.error = "ValueError"
    /\ unit.critic = "logic"
    /\ unit.calls > 0

\* C17 - Revision survives analysis failure: when the structured analysis
\* raises and both prompts could be built, optimize_proposal uses the default
\* analysis and makes the optimisation call; it raises exactly when building a
\* prompt or the optimisation call raises.
C17_RevisionSurvivesAnalysisFailure ==
    unit.last.op = "optimize_proposal" =>
        LET args == unit.last.args
            result == unit.last.result
        IN  /\ result.raised <=>
                 \/ args.analysis_prompt = "raise"
                 \/ args.optimization_prompt = "raise"
                 \/ args.optimization = "raise"
            /\ (args.analysis = "raise" /\ args.analysis_prompt = "ok"
                  /\ args.optimization_prompt = "ok") =>
                 /\ result.analysis = "default"
                 /\ result.backend_calls = 2

C17_Witness ==
    /\ unit.last.op = "optimize_proposal"
    /\ unit.last.args.analysis = "raise"
    /\ ~unit.last.result.raised
    /\ unit.last.result.value = "text"
    /\ unit.last.result.analysis = "default"

\* a propose step that got past retrieval
BackendStep ==
    steps'.propose = steps.propose + 1 /\ steps'.rag_failures = steps.rag_failures

\* C26 - Unit selection per round: the Generation Unit is invoked at most
\* once, in the propose step that finds proposals empty, and every stored
\* proposal of a run began with it; every propose step that finds a proposal
\* invokes the Revision Unit, not the Generation Unit, and passes it the
\* latest proposal and the whole evaluations list.
C26_UnitSelection ==
    [][/\ steps'.generate <= 1
       /\ proposals' # <<>> => steps'.generate = 1
       /\ (BackendStep /\ proposals = <<>>) =>
             /\ steps'.generate = steps.generate + 1
             /\ steps'.optimize = steps.optimize
       /\ (BackendStep /\ proposals # <<>>) =>
             /\ steps'.optimize = steps.optimize + 1
             /\ steps'.generate = steps.generate
             /\ steps'.revised = Len(proposals)
             /\ Len(steps'.evaluation_results) = Len(evaluations)]_vars

C26_Witness ==
    /\ steps.generate = 1
    /\ steps.optimize = 2
    /\ steps.revised = 2
    /\ Len(steps.evaluation_results) = 2
    /\ Len(proposals) = 3

\* C28 - Arbitration never lacks its evaluation: whenever arbitrate is about
\* to run there is an evaluation, there are as many evaluations as proposals,
\* and the i-th evaluation was computed from the i-th proposal.
C28_ArbitrationHasEvaluation ==
    pc = "arbitrate" =>
        /\ HasEvaluation
        /\ Len(evaluations) = Len(proposals)
        /\ steps.evaluated = [i \in 1..Len(proposals) |-> i]

C28_Witness ==
    /\ pc = "arbitrate"
    /\ Len(proposals) = 2
    /\ steps.evaluated = <<1, 2>>
    /\ steps.arbitrate = 1

\* C29 - No retries in the core: a step makes at most one proposal-producing
\* backend call and at most one call per configured critic (exactly one each
\* when the evaluation succeeds); a step in which a call failed ends the run,
\* and a run that has ended this way makes no further call.
C29_NoRetries ==
    [][/\ (steps'.generate + steps'.optimize) - (steps.generate + steps.optimize) <= 1
       /\ steps'.critic_calls - steps.critic_calls <= Len(critics)
       /\ (steps'.evaluate = steps.evaluate + 1
             /\ steps'.critic_failures = steps.critic_failures /\ pc' = "arbitrate") =>
                steps'.critic_calls - steps.critic_calls = Len(critics)
       /\ steps'.backend_failures > steps.backend_failures => pc' = "failed"
       /\ steps'.critic_failures > steps.critic_failures => pc' = "failed"
       /\ pc = "failed" => steps' = steps]_vars

C29_Witness ==
    /\ pc = "failed"
    /\ steps.critic_failures = 1
    /\ steps.optimize = 1
    /\ steps.backend_failures = 0
    /\ steps.critic_calls = 2 * Len(critics)

\* C30 - At least one full round: a run that ends has generated a proposal
\* and evaluated it, whatever max_iterations was configured; configured with
\* max_iterations <= 1 it ends after exactly one generation and one
\* evaluation, and the Revision Unit is never invoked.
C30_AtLeastOneRound ==
    /\ Ended =>
          /\ steps.generate = 1
          /\ steps.evaluate >= 1
          /\ Len(proposals) >= 1
          /\ Len(evaluations) = Len(proposals)
    /\ config.max_iterations <= 1 =>
          /\ steps.optimize = 0
          /\ Ended => (steps.generate = 1 /\ steps.evaluate = 1 /\ Len(proposals) = 1)

C30_Witness ==
    /\ Ended
    /\ config.max_iterations = -1
    /\ Len(proposals) = 1
    /\ Len(evaluations) = 1
    /\ latest_evaluation.score < excellent_score

\* C23 - Retrieval is optional: a propose step in which the retrieval
\* collaborator failed still calls the Generation or the Revision Unit, and
\* stores a proposal unless that call fails.
C23_RetrievalOptional ==
    [][steps'.rag_failures = steps.rag_failures + 1 =>
          /\ steps'.generate + steps'.optimize = steps.generate + steps.optimize + 1
          /\ steps'.backend_failures = steps.backend_failures =>
                Len(proposals') = Len(proposals) + 1]_vars

\* the section written for an evaluation shows its score (the composite or
\* the dimensions') and its suggestions
SectionCarries(section, evaluation) ==
    /\ \/ section.final_score = <<evaluation.score>>
       \/ /\ Len(section.detailed) = Len(evaluation.dimensions)
          /\ \A i \in DOMAIN section.detailed :
                section.detailed[i].score = evaluation.dimensions[i].score
    /\ \/ section.review_suggestions = evaluation.suggestions
       \/ /\ Len(section.detailed) = Len(evaluation.dimensions)
          /\ \A i \in DOMAIN section.detailed :
                section.detailed[i].suggestions = evaluation.dimensions[i].suggestions

\* C27 - Revision sees the full evaluation history: the analysis input built
\* in round N > 0 has one section for each of the N evaluations produced so
\* far, and each section carries that evaluation's scores and suggestions.
C27_FullEvaluationHistory ==
    steps.optimize > 0 =>
        /\ Len(steps.evaluation_results) = steps.revised
        /\ \A i \in 1..Len(steps.evaluation_results) :
              SectionCarries(steps.evaluation_results[i], evaluations[i])

\* C21 - Human override: once the user has answered (status is 'completed'
\* after 'stop', 'refine' after 'continue') the transition out of the
\* arbitration point follows the answer: 'stop' ends the run with status
\* 'completed', 'continue' leads to another propose step.
C21_HumanOverride ==
    [][(pc = "arbitrate" /\ pc' # "arbitrate") =>
          /\ status = "completed" => (pc' = "end" /\ status' = "completed")
          /\ status = "refine" => pc' = "propose"]_vars

\* the counters of the generation, revision and evaluation steps
RoundsRun(st) == <<st.propose, st.generate, st.optimize, st.evaluate, st.critic_calls>>

Suspended == pc \in {"evaluation_feedback", "action_choice"}

C24_RagRetrieveTotal ==
    (unit.last.op = "rag_retrieve" /\ unit.last.args.tool = "ok") =>
        LET args == unit.last.args
            result == unit.last.result
        IN  /\ ~result.raised
            /\ result.backend_calls = 1
            /\ args.retrieve = "raise" => result.value.kind = "error"
            /\ (args.retrieve = "ok" /\ args.documents.contents = <<>>) =>
                  result.value.kind = "not_found"
            /\ (args.retrieve = "ok" /\ args.documents.contents # <<>>) =>
                  /\ result.value.kind = "documents"
                  /\ result.value.parts =
                        [i \in 1..Len(args.documents.contents) |->
                            [label |-> i, content |-> args.documents.contents[i]]]

RECURSIVE Flatten(_)
\* the batches laid end to end
Flatten(batches) ==
    IF batches = <<>> THEN <<>> ELSE Head(batches) \o Flatten(Tail(batches))

RECURSIVE ExpectedDocuments(_, _)
\* the documents of the listed files that could be fetched and processed,
\* from the i-th listed object on
ExpectedDocuments(files, i) ==
    IF i > Len(files) THEN <<>>
    ELSE (IF files[i].kind = "file" THEN Documents(i, files[i].documents) ELSE <<>>)
         \o ExpectedDocuments(files, i + 1)

\* every batch but the last holds batch_size documents or more and held
\* fewer before its last file was added; no batch is empty
FlushedAtBatchSize(batches) ==
    \A k \in DOMAIN batches :
        /\ batches[k] # <<>>
        /\ k < Len(batches) => Len(batches[k]) >= batch_size
        /\ Len(batches[k]) - batches[k][Len(batches[k])][2] < batch_size

\* the documents of the good files are passed once each, in flushed batches
DeliveredOnce(args, result) ==
    /\ ~result.raised
    /\ Flatten(result.value) = ExpectedDocuments(args.files, 1)
    /\ FlushedAtBatchSize(result.value)

====
